---- MODULE Spec2Model ----
(***************************************************************************)
(* Model of pkg/bigquery/db.go (edkaya/bruin): the BigQuery connector's    *)
(* dataset provisioner (CreateDataSetIfNotExist), drift detector           *)
(* (IsSamePartitioning, IsSameClustering, IsPartitioningOrClustering-      *)
(* Mismatch, IsMaterializationTypeMismatch), drop-on-mismatch              *)
(* (DropTableOnMismatch) and metadata reconciler                           *)
(* (UpdateTableMetadataIfNotExist).                                        *)
(*                                                                         *)
(* A table or asset name is the sequence of its dot-separated segments     *)
(* (what strings.Split(name, ".") returns); the empty segment is "".       *)
(* The warehouse (the BigQuery API behind d.client) is the environment:    *)
(* each call is one step whose outcome is drawn from what the service can  *)
(* answer in the current warehouse state.                                  *)
(***************************************************************************)
EXTENDS Integers, Sequences, FiniteSets, TLC

VARIABLES
    \* ---- dataset provisioner --------------------------------------------
    datasetNameCache,   \* sync.Map of cache keys marked true        (db.go:53)
    datasetLocks,       \* sync.Map: the keys that own a *sync.Mutex  (db.go:54)
    holder,             \* per key: the set of callers inside its mutex
    datasets,           \* the datasets that exist in the warehouse
    pc,                 \* per caller: position in CreateDataSetIfNotExist
    assetName,          \* per caller: asset.Name of its invocation
    result,             \* per caller: "none" | "ok" | "err"
    probeCalls,         \* per key: dataset.Metadata calls issued
    createCalls,        \* per key: dataset.Create calls issued
    createOK,           \* per key: dataset.Create calls that succeeded
    \* ---- drift detector, applied to one meta/asset pair ------------------
    drMeta,             \* *bigquery.TableMetadata handed to the predicates
    drAsset,            \* asset.Materialization handed to the predicates
    drDone,             \* whether the predicates have been evaluated
    drOut,              \* their results
    \* ---- drop on mismatch ------------------------------------------------
    tables,             \* warehouse: per table reference, Nil or Ptr(metadata)
    dpc,                \* per worker: position in DropTableOnMismatch
    dName,              \* per worker: tableName
    dAsset,             \* per worker: asset.Materialization
    dMeta,              \* per worker: meta returned by tableRef.Metadata, or Nil
    dResult,            \* per worker: "none" | "ok" | "err"
    deleteCalls,        \* per worker: tableRef.Delete calls issued
    dCallFailed,        \* per worker: a warehouse call it made failed
    metadataCalls,      \* per worker: tableRef.Metadata calls issued
    dDeleteNotFound,    \* per worker: its Delete was answered 404
    \* ---- metadata reconciler ---------------------------------------------
    live,               \* warehouse: per table reference, Nil or Ptr(table)
    loopVarShared,      \* build: the range variable col is one variable for
                        \* the whole loop (Go before 1.22) or one per iteration
    spc,                \* per syncer: position in UpdateTableMetadataIfNotExist
    sAsset,             \* per syncer: the asset, or Nil
    sMeta,              \* per syncer: meta returned by tableRef.Metadata, or Nil
    sUpdate,            \* per syncer: the update submitted, or Nil
    sResult,            \* per syncer: "none" | "ok" | "err" | "nometadata"
    fetchCalls,         \* per syncer: tableRef.Metadata calls issued
    updateCalls,        \* per syncer: tableRef.Update calls issued
    sFetchAnswer,       \* per syncer: what tableRef.Metadata answered:
                        \* "none" | "found" | "notfound" | "error"
    \* ---- name resolution, applied to one name ----------------------------
    nmName,             \* tableName handed to getTableRef and BuildTableExistsQuery
    nmDone,             \* whether the two have been applied
    nmRef,              \* Ptr(table reference), or Nil for an error
    nmQuery             \* Ptr(existence query), or Nil for an error

dsVars == <<datasetNameCache, datasetLocks, holder, datasets, pc, assetName,
            result, probeCalls, createCalls, createOK>>

driftVars == <<drMeta, drAsset, drDone, drOut>>

dropVars == <<tables, dpc, dName, dAsset, dMeta, dResult, deleteCalls,
              dCallFailed, metadataCalls, dDeleteNotFound>>

syncVars == <<live, loopVarShared, spc, sAsset, sMeta, sUpdate, sResult,
              fetchCalls, updateCalls, sFetchAnswer>>

nameVars == <<nmName, nmDone, nmRef, nmQuery>>

vars == <<dsVars, driftVars, dropVars, syncVars, nameVars>>

\* a step of one component leaves the other components' state alone
DatasetStepOnly == UNCHANGED <<driftVars, dropVars, syncVars, nameVars>>

DriftStepOnly == UNCHANGED <<dsVars, dropVars, syncVars, nameVars>>

DropStepOnly == UNCHANGED <<dsVars, driftVars, syncVars, nameVars>>

SyncStepOnly == UNCHANGED <<dsVars, driftVars, dropVars, nameVars>>

NameStepOnly == UNCHANGED <<dsVars, driftVars, dropVars, syncVars>>

-----------------------------------------------------------------------------
(* Bounds and inputs                                                       *)

NumCallers == 2
Callers == 1..NumCallers

\* d.config.ProjectID
HomeProject == "home"

\* asset names handed to CreateDataSetIfNotExist, as segment sequences
ProvisionNames ==
    { <<"ds1", "t1">>,              \* dataset.table
      <<"home", "ds1", "t2">>,      \* project.dataset.table, same key as above
      <<"p2", "ds2", "t1">>,        \* another project and dataset
      <<"t1">> }                    \* not dataset-qualified

-----------------------------------------------------------------------------
(* CreateDataSetIfNotExist: name decomposition and cache key               *)

\* the switch on len(tableComponents): only 2 or 3 components are provisioned
HasDataset(n) == Len(n) \in {2, 3}

DatasetProject(n) == IF Len(n) = 2 THEN HomeProject ELSE n[1]

DatasetName(n) == IF Len(n) = 2 THEN n[1] ELSE n[2]

\* fmt.Sprintf("%s.%s", projectID, datasetName): the two parts joined by a
\* dot; segments hold no dot, so the joined string determines the pair.
CacheKey(n) == <<DatasetProject(n), DatasetName(n)>>

Keys == { CacheKey(n) : n \in { m \in ProvisionNames : HasDataset(m) } }

KeyOf(p) == CacheKey(assetName[p])

\* datasetNameCache.Load(cacheKey), first check (outside the lock)
FirstCheckHit(k) == k \in datasetNameCache

\* the second check, under the lock, skipped
SecondCheckSkipped(k) == FALSE

\* datasetNameCache.Load(cacheKey), second check (under the lock)
SecondCheckHit(k) == k \in datasetNameCache

\* a mutex that does not exclude (a fresh mutex per caller)
MutexAlwaysFree(k) == TRUE

\* one mutex for all keys: free only when no key's lock is held
MutexGlobal(k) == \A j \in DOMAIN holder : holder[j] = {}

\* mutex.Lock() can return only when no one holds the key's mutex
MutexFree(k) == holder[k] = {}

\* the cache marked before the create call's outcome is known
CacheAfterCreateAlways(k, ok) == datasetNameCache \cup {k}

\* datasetNameCache.Store(cacheKey, true) only after Create returned nil
CacheAfterCreate(k, ok) ==
    IF ok THEN datasetNameCache \cup {k} ELSE datasetNameCache

\* the cache after dataset.Metadata returned nil: the code stores nothing
CacheAfterProbeFound(k) == datasetNameCache

\* the lock kept on return (no deferred Unlock)
UnlockForgotten(p, k) == holder

\* defer mutex.Unlock(), run by caller p
Unlock(p, k) == [holder EXCEPT ![k] = @ \ {p}]

InitDS ==
    /\ datasetNameCache = {}
    /\ datasetLocks = {}
    /\ holder = [k \in Keys |-> {}]
    /\ datasets \in SUBSET Keys
    /\ pc = [p \in Callers |-> "idle"]
    /\ assetName = [p \in Callers |-> <<>>]
    /\ result = [p \in Callers |-> "none"]
    /\ probeCalls = [k \in Keys |-> 0]
    /\ createCalls = [k \in Keys |-> 0]
    /\ createOK = [k \in Keys |-> 0]

\* entry: split the name, return nil for other shapes, first cache check
Invoke(p, n) ==
    /\ DatasetStepOnly
    /\ pc[p] = "idle"
    /\ assetName' = [assetName EXCEPT ![p] = n]
    /\ IF ~HasDataset(n) \/ FirstCheckHit(CacheKey(n))
         THEN /\ pc' = [pc EXCEPT ![p] = "done"]
              /\ result' = [result EXCEPT ![p] = "ok"]
         ELSE /\ pc' = [pc EXCEPT ![p] = "getlock"]
              /\ UNCHANGED result
    /\ UNCHANGED <<datasetNameCache, datasetLocks, holder, datasets,
                   probeCalls, createCalls, createOK>>

\* datasetLocks.LoadOrStore(cacheKey, &sync.Mutex{})
GetLock(p) ==
    /\ DatasetStepOnly
    /\ pc[p] = "getlock"
    /\ datasetLocks' = datasetLocks \cup {KeyOf(p)}
    /\ pc' = [pc EXCEPT ![p] = "lock"]
    /\ UNCHANGED <<datasetNameCache, holder, datasets, assetName, result,
                   probeCalls, createCalls, createOK>>

\* mutex.Lock()
Lock(p) ==
    /\ DatasetStepOnly
    /\ pc[p] = "lock"
    /\ MutexFree(KeyOf(p))
    /\ holder' = [holder EXCEPT ![KeyOf(p)] = @ \cup {p}]
    /\ pc' = [pc EXCEPT ![p] = "check2"]
    /\ UNCHANGED <<datasetNameCache, datasetLocks, datasets, assetName, result,
                   probeCalls, createCalls, createOK>>

\* the second cache check; on a hit return nil (the deferred Unlock runs)
Check2(p) ==
    /\ DatasetStepOnly
    /\ pc[p] = "check2"
    /\ IF SecondCheckHit(KeyOf(p))
         THEN /\ pc' = [pc EXCEPT ![p] = "done"]
              /\ result' = [result EXCEPT ![p] = "ok"]
              /\ holder' = Unlock(p, KeyOf(p))
         ELSE /\ pc' = [pc EXCEPT ![p] = "probe"]
              /\ UNCHANGED <<result, holder>>
    /\ UNCHANGED <<datasetNameCache, datasetLocks, datasets, assetName,
                   probeCalls, createCalls, createOK>>

\* dataset.Metadata(ctx) answers nil: return nil
ProbeFound(p) ==
    /\ DatasetStepOnly
    /\ pc[p] = "probe"
    /\ KeyOf(p) \in datasets
    /\ probeCalls' = [probeCalls EXCEPT ![KeyOf(p)] = @ + 1]
    /\ datasetNameCache' = CacheAfterProbeFound(KeyOf(p))
    /\ pc' = [pc EXCEPT ![p] = "done"]
    /\ result' = [result EXCEPT ![p] = "ok"]
    /\ holder' = Unlock(p, KeyOf(p))
    /\ UNCHANGED <<datasetLocks, datasets, assetName, createCalls, createOK>>

\* dataset.Metadata(ctx) answers 404: go on to dataset.Create
ProbeNotFound(p) ==
    /\ DatasetStepOnly
    /\ pc[p] = "probe"
    /\ KeyOf(p) \notin datasets
    /\ probeCalls' = [probeCalls EXCEPT ![KeyOf(p)] = @ + 1]
    /\ pc' = [pc EXCEPT ![p] = "create"]
    /\ UNCHANGED <<datasetNameCache, datasetLocks, holder, datasets, assetName,
                   result, createCalls, createOK>>

\* dataset.Metadata(ctx) fails otherwise: "failed to fetch metadata"
ProbeError(p) ==
    /\ DatasetStepOnly
    /\ pc[p] = "probe"
    /\ probeCalls' = [probeCalls EXCEPT ![KeyOf(p)] = @ + 1]
    /\ pc' = [pc EXCEPT ![p] = "done"]
    /\ result' = [result EXCEPT ![p] = "err"]
    /\ holder' = Unlock(p, KeyOf(p))
    /\ UNCHANGED <<datasetNameCache, datasetLocks, datasets, assetName,
                   createCalls, createOK>>

\* dataset.Create(ctx, ...) answers nil: the dataset now exists
CreateSucceeds(p) ==
    /\ DatasetStepOnly
    /\ pc[p] = "create"
    /\ KeyOf(p) \notin datasets
    /\ createCalls' = [createCalls EXCEPT ![KeyOf(p)] = @ + 1]
    /\ createOK' = [createOK EXCEPT ![KeyOf(p)] = @ + 1]
    /\ datasets' = datasets \cup {KeyOf(p)}
    /\ pc' = [pc EXCEPT ![p] = "store"]
    /\ UNCHANGED <<datasetNameCache, datasetLocks, holder, assetName, result,
                   probeCalls>>

\* dataset.Create fails (already exists, or any API failure):
\* "failed to create dataset"
CreateFails(p) ==
    /\ DatasetStepOnly
    /\ pc[p] = "create"
    /\ createCalls' = [createCalls EXCEPT ![KeyOf(p)] = @ + 1]
    /\ datasetNameCache' = CacheAfterCreate(KeyOf(p), FALSE)
    /\ pc' = [pc EXCEPT ![p] = "done"]
    /\ result' = [result EXCEPT ![p] = "err"]
    /\ holder' = Unlock(p, KeyOf(p))
    /\ UNCHANGED <<datasetLocks, datasets, assetName, probeCalls, createOK>>

\* datasetNameCache.Store(cacheKey, true); return nil
Store(p) ==
    /\ DatasetStepOnly
    /\ pc[p] = "store"
    /\ datasetNameCache' = CacheAfterCreate(KeyOf(p), TRUE)
    /\ pc' = [pc EXCEPT ![p] = "done"]
    /\ result' = [result EXCEPT ![p] = "ok"]
    /\ holder' = Unlock(p, KeyOf(p))
    /\ UNCHANGED <<datasetLocks, datasets, assetName, probeCalls, createCalls,
                   createOK>>

\* someone else creates the dataset in the warehouse
OutOfBandCreate(k) ==
    /\ DatasetStepOnly
    /\ k \notin datasets
    /\ datasets' = datasets \cup {k}
    /\ UNCHANGED <<datasetNameCache, datasetLocks, holder, pc, assetName,
                   result, probeCalls, createCalls, createOK>>

NextDS ==
    \/ \E p \in Callers, n \in ProvisionNames : Invoke(p, n)
    \/ \E p \in Callers : GetLock(p)
    \/ \E p \in Callers : Lock(p)
    \/ \E p \in Callers : Check2(p)
    \/ \E p \in Callers : ProbeFound(p)
    \/ \E p \in Callers : ProbeNotFound(p)
    \/ \E p \in Callers : ProbeError(p)
    \/ \E p \in Callers : CreateSucceeds(p)
    \/ \E p \in Callers : CreateFails(p)
    \/ \E p \in Callers : Store(p)
    \/ \E k \in Keys : OutOfBandCreate(k)

-----------------------------------------------------------------------------
(* Drift detector: pure predicates over live metadata and the asset        *)
(*                                                                         *)
(* A Go pointer that may be nil is a sequence of length 0 (nil) or 1:      *)
(* meta.TimePartitioning = <<>> or <<[Field |-> f]>>.                      *)

Nil == <<>>

Ptr(x) == <<x>>

\* longest clusterBy / Clustering.Fields list drawn
MaxClusterLen == 2

ColumnNames == {"a", "b"}

\* "" is ingestion-time partitioning (no field) on the live side and
\* "no partition column" on the asset side
PartitionFields == {""} \cup ColumnNames

ClusterLists ==
    UNION { [1..n -> ColumnNames] : n \in 0..MaxClusterLen }

\* bigquery.TableType values of the live object
MetaTypes == {"TABLE", "VIEW"}

\* pipeline.MaterializationTypeNone, the "no opinion" sentinel
MaterializationTypeNone == "none"

AssetTypes == {MaterializationTypeNone, "table", "view"}

Metas ==
    [ Type : MetaTypes,
      TimePartitioning : {Nil} \cup { Ptr([Field |-> f]) : f \in PartitionFields },
      RangePartitioning : {Nil} \cup { Ptr([Field |-> f]) : f \in PartitionFields },
      Clustering : {Nil} \cup { Ptr([Fields |-> fs]) : fs \in ClusterLists } ]

Materializations ==
    [ Type : AssetTypes, PartitionBy : PartitionFields, ClusterBy : ClusterLists ]

\* Unicode simple case folding, on the type strings in use
Fold(s) ==
    CASE s = "TABLE" -> "table"
      [] s = "VIEW" -> "view"
      [] OTHER -> s

\* strings.EqualFold
EqualFold(s, t) == Fold(s) = Fold(t)

\* the comparison with the range-partitioning branch left out
IsSamePartitioningTimeOnly(meta, asset) ==
    IF /\ asset.PartitionBy # ""
       /\ meta.TimePartitioning = Nil
       /\ meta.RangePartitioning = Nil
      THEN FALSE
    ELSE IF meta.TimePartitioning = Nil /\ meta.RangePartitioning = Nil
      THEN TRUE
    ELSE IF /\ meta.TimePartitioning # Nil
            /\ meta.TimePartitioning[1].Field # asset.PartitionBy
      THEN FALSE
    ELSE TRUE

IsSamePartitioning(meta, asset) ==
    IF /\ asset.PartitionBy # ""
       /\ meta.TimePartitioning = Nil
       /\ meta.RangePartitioning = Nil
      THEN FALSE
    ELSE IF meta.TimePartitioning = Nil /\ meta.RangePartitioning = Nil
      THEN TRUE
    ELSE IF /\ meta.TimePartitioning # Nil
            /\ meta.TimePartitioning[1].Field # asset.PartitionBy
      THEN FALSE
    ELSE IF /\ meta.RangePartitioning # Nil
            /\ meta.RangePartitioning[1].Field # asset.PartitionBy
      THEN FALSE
    ELSE TRUE

\* the loop replaced by a comparison of the two lists as sets
SameFieldSet(bigQueryFields, userFields, i) ==
    { bigQueryFields[j] : j \in 1..Len(bigQueryFields) }
        = { userFields[j] : j \in 1..Len(userFields) }

\* the loop over bigQueryFields: the first differing position, if any
RECURSIVE FieldsEqualFrom(_, _, _)
FieldsEqualFrom(bigQueryFields, userFields, i) ==
    IF i > Len(bigQueryFields) THEN TRUE
    ELSE IF bigQueryFields[i] # userFields[i] THEN FALSE
    ELSE FieldsEqualFrom(bigQueryFields, userFields, i + 1)

IsSameClustering(meta, asset) ==
    IF /\ Len(asset.ClusterBy) > 0
       /\ (meta.Clustering = Nil \/ Len(meta.Clustering[1].Fields) = 0)
      THEN FALSE
    ELSE IF meta.Clustering = Nil
      THEN TRUE
    ELSE IF Len(meta.Clustering[1].Fields) # Len(asset.ClusterBy)
      THEN FALSE
    ELSE FieldsEqualFrom(meta.Clustering[1].Fields, asset.ClusterBy, 1)

\* the condition that gates the two comparisons
MismatchCheckRequired(meta, asset) ==
    \/ meta.TimePartitioning # Nil
    \/ meta.RangePartitioning # Nil
    \/ asset.PartitionBy # ""
    \/ Len(asset.ClusterBy) > 0

IsPartitioningOrClusteringMismatch(meta, asset) ==
    IF MismatchCheckRequired(meta, asset)
      THEN ~IsSamePartitioning(meta, asset) \/ ~IsSameClustering(meta, asset)
      ELSE FALSE

IsMaterializationTypeMismatch(meta, asset) ==
    IF asset.Type = MaterializationTypeNone
      THEN FALSE
      ELSE ~EqualFold(meta.Type, asset.Type)

NoResults ==
    [ samePartitioning |-> FALSE, sameClustering |-> FALSE,
      partOrClusterMismatch |-> FALSE, typeMismatch |-> FALSE ]

InitDrift ==
    /\ drMeta \in Metas
    /\ drAsset \in Materializations
    /\ drDone = FALSE
    /\ drOut = NoResults

\* one call of each predicate on the pair
Detect ==
    /\ DriftStepOnly
    /\ ~drDone
    /\ drDone' = TRUE
    /\ drOut' = [ samePartitioning |-> IsSamePartitioning(drMeta, drAsset),
                  sameClustering |-> IsSameClustering(drMeta, drAsset),
                  partOrClusterMismatch |->
                      IsPartitioningOrClusteringMismatch(drMeta, drAsset),
                  typeMismatch |-> IsMaterializationTypeMismatch(drMeta, drAsset) ]
    /\ UNCHANGED <<drMeta, drAsset>>

-----------------------------------------------------------------------------
(* Qualified name resolution                                               *)

\* the empty-component loop left out
NoEmptyCheck(n) == FALSE

\* the loop that rejects an empty component
HasEmptyComponent(n) == \E i \in 1..Len(n) : n[i] = ""

\* the format validation reduced to the count of components
ComponentCountOnly(n) == Len(n) \in {2, 3}

\* getTableRef returns a nil error
RefOK(n) == ~HasEmptyComponent(n) /\ Len(n) \in {2, 3}

\* the table getTableRef returns: <<project, dataset, table>>
getTableRef(n) ==
    IF Len(n) = 2 THEN <<HomeProject, n[1], n[2]>> ELSE <<n[1], n[2], n[3]>>

\* BuildTableExistsQuery returns a nil error
QueryOK(n) == ~HasEmptyComponent(n) /\ Len(n) \in {2, 3}

\* the query BuildTableExistsQuery returns: datasetRef is
\* project.dataset.INFORMATION_SCHEMA.TABLES and targetTable the name in
\* WHERE table_name = '...'
BuildTableExistsQuery(n) ==
    IF Len(n) = 2
      THEN [ DatasetRef |-> <<HomeProject, n[1], "INFORMATION_SCHEMA", "TABLES">>,
             TargetTable |-> n[2] ]
      ELSE [ DatasetRef |-> <<n[1], n[2], "INFORMATION_SCHEMA", "TABLES">>,
             TargetTable |-> n[3] ]

\* most components of a name drawn
MaxSegments == 4

Segments == {"", "p", "d", "t"}

\* strings.Split returns at least one component
TableNames == UNION { [1..n -> Segments] : n \in 1..MaxSegments }

InitNames ==
    /\ nmName \in TableNames
    /\ nmDone = FALSE
    /\ nmRef = Nil
    /\ nmQuery = Nil

\* one call of getTableRef and one of BuildTableExistsQuery on the name
Resolve ==
    /\ NameStepOnly
    /\ ~nmDone
    /\ nmDone' = TRUE
    /\ nmRef' = IF RefOK(nmName) THEN Ptr(getTableRef(nmName)) ELSE Nil
    /\ nmQuery' = IF QueryOK(nmName) THEN Ptr(BuildTableExistsQuery(nmName))
                                      ELSE Nil
    /\ UNCHANGED nmName

NextNames == Resolve

-----------------------------------------------------------------------------
(* DropTableOnMismatch                                                     *)

NumDroppers == 2
Droppers == 1..NumDroppers

DropNames ==
    { <<"ds1", "t1">>,              \* dataset.table
      <<"ds1", "", "t1">> }         \* an empty component

\* the live objects a table reference can hold
DropMetas ==
    { [Type |-> "TABLE", TimePartitioning |-> Nil, RangePartitioning |-> Nil,
       Clustering |-> Nil],
      [Type |-> "VIEW", TimePartitioning |-> Nil, RangePartitioning |-> Nil,
       Clustering |-> Nil],
      [Type |-> "TABLE", TimePartitioning |-> Ptr([Field |-> "a"]),
       RangePartitioning |-> Nil, Clustering |-> Nil],
      [Type |-> "TABLE", TimePartitioning |-> Nil, RangePartitioning |-> Nil,
       Clustering |-> Ptr([Fields |-> <<"a">>])] }

\* the materializations an asset can declare
DropAssets ==
    { [Type |-> "table", PartitionBy |-> "", ClusterBy |-> <<>>],
      [Type |-> "table", PartitionBy |-> "a", ClusterBy |-> <<>>],
      [Type |-> "view", PartitionBy |-> "", ClusterBy |-> <<>>],
      [Type |-> MaterializationTypeNone, PartitionBy |-> "", ClusterBy |-> <<>>] }

TableRefs == { getTableRef(n) : n \in { m \in DropNames : RefOK(m) } }

DRef(w) == getTableRef(dName[w])

\* the drop decision taken with only one of the two predicates' say
ShouldDropBothMismatch(meta, asset) ==
    /\ IsMaterializationTypeMismatch(meta, asset)
    /\ IsPartitioningOrClusteringMismatch(meta, asset)

\* the condition under which the table is deleted
ShouldDrop(meta, asset) ==
    \/ IsMaterializationTypeMismatch(meta, asset)
    \/ IsPartitioningOrClusteringMismatch(meta, asset)

InitDrop ==
    /\ tables \in [TableRefs -> {Nil} \cup { Ptr(m) : m \in DropMetas }]
    /\ dpc = [w \in Droppers |-> "idle"]
    /\ dName = [w \in Droppers |-> <<>>]
    /\ dAsset = [w \in Droppers |-> Nil]
    /\ dMeta = [w \in Droppers |-> Nil]
    /\ dResult = [w \in Droppers |-> "none"]
    /\ deleteCalls = [w \in Droppers |-> 0]
    /\ dCallFailed = [w \in Droppers |-> FALSE]
    /\ metadataCalls = [w \in Droppers |-> 0]
    /\ dDeleteNotFound = [w \in Droppers |-> FALSE]

\* entry: d.getTableRef(tableName); a malformed name is returned as an error
DropInvoke(w, n, a) ==
    /\ DropStepOnly
    /\ dpc[w] = "idle"
    /\ dName' = [dName EXCEPT ![w] = n]
    /\ dAsset' = [dAsset EXCEPT ![w] = Ptr(a)]
    /\ IF RefOK(n)
         THEN /\ dpc' = [dpc EXCEPT ![w] = "fetch"]
              /\ UNCHANGED dResult
         ELSE /\ dpc' = [dpc EXCEPT ![w] = "done"]
              /\ dResult' = [dResult EXCEPT ![w] = "err"]
    /\ UNCHANGED <<tables, dMeta, deleteCalls, dCallFailed, metadataCalls,
                   dDeleteNotFound>>

\* tableRef.Metadata(ctx) answers the live metadata; the two predicates are
\* evaluated on it and the table is either left alone or about to be deleted
DropFetchFound(w) ==
    /\ DropStepOnly
    /\ dpc[w] = "fetch"
    /\ tables[DRef(w)] # Nil
    /\ dMeta' = [dMeta EXCEPT ![w] = tables[DRef(w)]]
    /\ IF ShouldDrop(tables[DRef(w)][1], dAsset[w][1])
         THEN /\ dpc' = [dpc EXCEPT ![w] = "delete"]
              /\ UNCHANGED dResult
         ELSE /\ dpc' = [dpc EXCEPT ![w] = "done"]
              /\ dResult' = [dResult EXCEPT ![w] = "ok"]
    /\ metadataCalls' = [metadataCalls EXCEPT ![w] = @ + 1]
    /\ UNCHANGED <<tables, dName, dAsset, deleteCalls, dCallFailed,
                   dDeleteNotFound>>

\* tableRef.Metadata(ctx) answers 404: return nil
DropFetchNotFound(w) ==
    /\ DropStepOnly
    /\ dpc[w] = "fetch"
    /\ tables[DRef(w)] = Nil
    /\ dpc' = [dpc EXCEPT ![w] = "done"]
    /\ dResult' = [dResult EXCEPT ![w] = "ok"]
    /\ metadataCalls' = [metadataCalls EXCEPT ![w] = @ + 1]
    /\ UNCHANGED <<tables, dName, dAsset, dMeta, deleteCalls, dCallFailed,
                   dDeleteNotFound>>

\* tableRef.Metadata(ctx) fails otherwise: "failed to fetch metadata"
DropFetchError(w) ==
    /\ DropStepOnly
    /\ dpc[w] = "fetch"
    /\ dpc' = [dpc EXCEPT ![w] = "done"]
    /\ dResult' = [dResult EXCEPT ![w] = "err"]
    /\ dCallFailed' = [dCallFailed EXCEPT ![w] = TRUE]
    /\ metadataCalls' = [metadataCalls EXCEPT ![w] = @ + 1]
    /\ UNCHANGED <<tables, dName, dAsset, dMeta, deleteCalls, dDeleteNotFound>>

\* tableRef.Delete(ctx) answers nil: the table is gone
DropDeleteOK(w) ==
    /\ DropStepOnly
    /\ dpc[w] = "delete"
    /\ tables[DRef(w)] # Nil
    /\ tables' = [tables EXCEPT ![DRef(w)] = Nil]
    /\ deleteCalls' = [deleteCalls EXCEPT ![w] = @ + 1]
    /\ dpc' = [dpc EXCEPT ![w] = "done"]
    /\ dResult' = [dResult EXCEPT ![w] = "ok"]
    /\ UNCHANGED <<dName, dAsset, dMeta, dCallFailed, metadataCalls,
                   dDeleteNotFound>>

\* tableRef.Delete(ctx) answers 404, the table being already gone: the
\* error is not told apart from any other, "failed to delete table"
DropDeleteNotFound(w) ==
    /\ DropStepOnly
    /\ dpc[w] = "delete"
    /\ tables[DRef(w)] = Nil
    /\ deleteCalls' = [deleteCalls EXCEPT ![w] = @ + 1]
    /\ dCallFailed' = [dCallFailed EXCEPT ![w] = TRUE]
    /\ dDeleteNotFound' = [dDeleteNotFound EXCEPT ![w] = TRUE]
    /\ dpc' = [dpc EXCEPT ![w] = "done"]
    /\ dResult' = [dResult EXCEPT ![w] = "err"]
    /\ UNCHANGED <<tables, dName, dAsset, dMeta, metadataCalls>>

\* tableRef.Delete(ctx) fails otherwise: "failed to delete table"
DropDeleteFails(w) ==
    /\ DropStepOnly
    /\ dpc[w] = "delete"
    /\ deleteCalls' = [deleteCalls EXCEPT ![w] = @ + 1]
    /\ dCallFailed' = [dCallFailed EXCEPT ![w] = TRUE]
    /\ dpc' = [dpc EXCEPT ![w] = "done"]
    /\ dResult' = [dResult EXCEPT ![w] = "err"]
    /\ UNCHANGED <<tables, dName, dAsset, dMeta, metadataCalls, dDeleteNotFound>>

\* the downstream step (or anyone else) creates the table again
Recreate(r, m) ==
    /\ DropStepOnly
    /\ tables[r] = Nil
    /\ tables' = [tables EXCEPT ![r] = Ptr(m)]
    /\ UNCHANGED <<dpc, dName, dAsset, dMeta, dResult, deleteCalls, dCallFailed,
                   metadataCalls, dDeleteNotFound>>

NextDrop ==
    \/ \E w \in Droppers, n \in DropNames, a \in DropAssets : DropInvoke(w, n, a)
    \/ \E w \in Droppers : DropFetchFound(w)
    \/ \E w \in Droppers : DropFetchNotFound(w)
    \/ \E w \in Droppers : DropFetchError(w)
    \/ \E w \in Droppers : DropDeleteOK(w)
    \/ \E w \in Droppers : DropDeleteNotFound(w)
    \/ \E w \in Droppers : DropDeleteFails(w)
    \/ \E r \in TableRefs, m \in DropMetas : Recreate(r, m)

-----------------------------------------------------------------------------
(* UpdateTableMetadataIfNotExist                                           *)

NumSyncers == 2
Syncers == 1..NumSyncers

\* the highest version another writer brings the table to
MaxETag == 2

Col(name, description, pk) ==
    [Name |-> name, Description |-> description, PrimaryKey |-> pk]

SyncAssets ==
    { \* nothing declared
      [Name |-> <<"ds1", "t1">>, Description |-> "", Columns |-> <<>>],
      \* a primary key and no description anywhere
      [Name |-> <<"ds1", "t1">>, Description |-> "",
       Columns |-> <<Col("id", "", TRUE)>>],
      \* description, column description and primary key
      [Name |-> <<"ds1", "t1">>, Description |-> "D",
       Columns |-> <<Col("id", "x", TRUE), Col("w", "", FALSE)>>],
      \* column descriptions only, to a project-qualified name
      [Name |-> <<"home", "ds1", "t1">>, Description |-> "",
       Columns |-> <<Col("id", "x", FALSE), Col("v", "y", FALSE)>>],
      \* a column the live table does not have
      [Name |-> <<"ds1", "t1">>, Description |-> "D",
       Columns |-> <<Col("w", "z", TRUE)>>],
      \* malformed names, with and without something to push
      [Name |-> <<"t1">>, Description |-> "",
       Columns |-> <<Col("id", "", TRUE)>>],
      [Name |-> <<"t1">>, Description |-> "D", Columns |-> <<>>] }

Field(name, description) == [Name |-> name, Description |-> description]

\* the live tables a reference can hold at the start
LiveTables ==
    { [Schema |-> <<Field("id", ""), Field("v", "")>>, Description |-> "",
       PrimaryKey |-> <<>>, ETag |-> 1],
      [Schema |-> <<Field("id", "x"), Field("v", "")>>, Description |-> "D",
       PrimaryKey |-> <<>>, ETag |-> 1] }

SyncRefs == { getTableRef(a.Name) : a \in { b \in SyncAssets : RefOK(b.Name) } }

SRef(w) == getTableRef(sAsset[w][1].Name)

\* anyColumnHasDescription after the loop over asset.Columns
AnyColumnHasDescription(asset) ==
    \E i \in 1..Len(asset.Columns) : asset.Columns[i].Description # ""

\* the early return dropped for assets that have columns
NothingToPushNoColumns(asset) ==
    asset.Description = "" /\ Len(asset.Columns) = 0

\* the condition of the NoMetadataUpdatedError return
NothingToPush(asset) ==
    /\ asset.Description = ""
    /\ (Len(asset.Columns) = 0 \/ ~AnyColumnHasDescription(asset))

\* the last index of asset.Columns that carries the name (the map keeps the
\* last write), 0 when no column does
LastIndexOf(asset, name) ==
    LET hits == { i \in 1..Len(asset.Columns) : asset.Columns[i].Name = name }
    IN IF hits = {} THEN 0 ELSE CHOOSE i \in hits : \A j \in hits : j <= i

\* _, ok := colsByName[field.Name]
InColsByName(asset, name) == LastIndexOf(asset, name) # 0

\* colsByName[name].Description: colsByName holds &col, which is the
\* iteration's own copy, or the one shared variable that ends as the last
\* column
ColsByNameDescription(asset, name, shared) ==
    IF shared
      THEN asset.Columns[Len(asset.Columns)].Description
      ELSE asset.Columns[LastIndexOf(asset, name)].Description

\* the loop over meta.Schema: field.Description = col.Description
DescribedSchema(schema, asset, shared) ==
    [ i \in 1..Len(schema) |->
        IF InColsByName(asset, schema[i].Name)
          THEN Field(schema[i].Name,
                     ColsByNameDescription(asset, schema[i].Name, shared))
          ELSE schema[i] ]

\* colsChanged after the loop over meta.Schema
ColsChanged(schema, asset) ==
    \E i \in 1..Len(schema) : InColsByName(asset, schema[i].Name)

\* asset.ColumnNamesWithPrimaryKey(): the names of the columns flagged
\* primary key, in column order
RECURSIVE ColumnNamesWithPrimaryKey(_)
ColumnNamesWithPrimaryKey(cols) ==
    IF cols = <<>> THEN <<>>
    ELSE IF Head(cols).PrimaryKey
      THEN <<Head(cols).Name>> \o ColumnNamesWithPrimaryKey(Tail(cols))
      ELSE ColumnNamesWithPrimaryKey(Tail(cols))

\* update.TableConstraints: set only when the asset has primary keys
TableConstraints(asset) ==
    IF Len(ColumnNamesWithPrimaryKey(asset.Columns)) > 0
      THEN Ptr([PrimaryKey |-> ColumnNamesWithPrimaryKey(asset.Columns)])
      ELSE Nil

\* bigquery.TableMetadataToUpdate as built from meta and the asset; a field
\* left unset is Nil
BuildUpdate(meta, asset, shared) ==
    [ Schema |-> IF ColsChanged(meta.Schema, asset)
                   THEN Ptr(DescribedSchema(meta.Schema, asset, shared))
                   ELSE Nil,
      Description |-> IF asset.Description # ""
                        THEN Ptr(asset.Description) ELSE Nil,
      TableConstraints |-> TableConstraints(asset) ]

\* the version token taken from the table as it is when the update is sent
LatestETag(w) == live[SRef(w)][1].ETag

\* the etag argument of tableRef.Update: meta.ETag of this call's fetch
UpdateETag(w) == sMeta[w][1].ETag

\* the service applying an update: unset fields keep their value, the
\* version moves on
Applied(table, update) ==
    [ Schema |-> IF update.Schema # Nil THEN update.Schema[1] ELSE table.Schema,
      Description |-> IF update.Description # Nil
                        THEN update.Description[1] ELSE table.Description,
      PrimaryKey |-> IF update.TableConstraints # Nil
                       THEN update.TableConstraints[1].PrimaryKey
                       ELSE table.PrimaryKey,
      ETag |-> table.ETag + 1 ]

\* the 404 of the fetch returned as an error like any other
NotFoundSurfaced == "err"

\* what the call returns when tableRef.Metadata answers 404: nil
NotFoundResult == "ok"

InitSync ==
    /\ live \in [SyncRefs -> {Nil} \cup { Ptr(t) : t \in LiveTables }]
    /\ loopVarShared \in BOOLEAN
    /\ spc = [w \in Syncers |-> "idle"]
    /\ sAsset = [w \in Syncers |-> Nil]
    /\ sMeta = [w \in Syncers |-> Nil]
    /\ sUpdate = [w \in Syncers |-> Nil]
    /\ sResult = [w \in Syncers |-> "none"]
    /\ fetchCalls = [w \in Syncers |-> 0]
    /\ updateCalls = [w \in Syncers |-> 0]
    /\ sFetchAnswer = [w \in Syncers |-> "none"]

\* entry: the NoMetadataUpdatedError return, then d.getTableRef(asset.Name)
SyncInvoke(w, a) ==
    /\ SyncStepOnly
    /\ spc[w] = "idle"
    /\ sAsset' = [sAsset EXCEPT ![w] = Ptr(a)]
    /\ IF NothingToPush(a)
         THEN /\ spc' = [spc EXCEPT ![w] = "done"]
              /\ sResult' = [sResult EXCEPT ![w] = "nometadata"]
       ELSE IF ~RefOK(a.Name)
         THEN /\ spc' = [spc EXCEPT ![w] = "done"]
              /\ sResult' = [sResult EXCEPT ![w] = "err"]
         ELSE /\ spc' = [spc EXCEPT ![w] = "fetch"]
              /\ UNCHANGED sResult
    /\ UNCHANGED <<live, loopVarShared, sMeta, sUpdate, fetchCalls, updateCalls,
                   sFetchAnswer>>

\* tableRef.Metadata(ctx) answers the live metadata; the update is built
SyncFetchFound(w) ==
    /\ SyncStepOnly
    /\ spc[w] = "fetch"
    /\ live[SRef(w)] # Nil
    /\ fetchCalls' = [fetchCalls EXCEPT ![w] = @ + 1]
    /\ sMeta' = [sMeta EXCEPT ![w] = live[SRef(w)]]
    /\ spc' = [spc EXCEPT ![w] = "update"]
    /\ sFetchAnswer' = [sFetchAnswer EXCEPT ![w] = "found"]
    /\ UNCHANGED <<live, loopVarShared, sAsset, sUpdate, sResult, updateCalls>>

\* tableRef.Metadata(ctx) answers 404: return nil
SyncFetchNotFound(w) ==
    /\ SyncStepOnly
    /\ spc[w] = "fetch"
    /\ live[SRef(w)] = Nil
    /\ fetchCalls' = [fetchCalls EXCEPT ![w] = @ + 1]
    /\ sFetchAnswer' = [sFetchAnswer EXCEPT ![w] = "notfound"]
    /\ spc' = [spc EXCEPT ![w] = "done"]
    /\ sResult' = [sResult EXCEPT ![w] = NotFoundResult]
    /\ UNCHANGED <<live, loopVarShared, sAsset, sMeta, sUpdate, updateCalls>>

\* tableRef.Metadata(ctx) fails otherwise: the error is returned
SyncFetchError(w) ==
    /\ SyncStepOnly
    /\ spc[w] = "fetch"
    /\ fetchCalls' = [fetchCalls EXCEPT ![w] = @ + 1]
    /\ sFetchAnswer' = [sFetchAnswer EXCEPT ![w] = "error"]
    /\ spc' = [spc EXCEPT ![w] = "done"]
    /\ sResult' = [sResult EXCEPT ![w] = "err"]
    /\ UNCHANGED <<live, loopVarShared, sAsset, sMeta, sUpdate, updateCalls>>

\* the update this call submits, with its etag
Submitted(w) ==
    [ Update |-> BuildUpdate(sMeta[w][1], sAsset[w][1], loopVarShared),
      ETag |-> UpdateETag(w) ]

\* tableRef.Update(ctx, update, meta.ETag) is applied: the etag is the
\* table's current one
SyncUpdateOK(w) ==
    /\ SyncStepOnly
    /\ spc[w] = "update"
    /\ live[SRef(w)] # Nil
    /\ Submitted(w).ETag = live[SRef(w)][1].ETag
    /\ updateCalls' = [updateCalls EXCEPT ![w] = @ + 1]
    /\ sUpdate' = [sUpdate EXCEPT ![w] = Ptr(Submitted(w))]
    /\ live' = [live EXCEPT ![SRef(w)] = Ptr(Applied(@[1], Submitted(w).Update))]
    /\ spc' = [spc EXCEPT ![w] = "done"]
    /\ sResult' = [sResult EXCEPT ![w] = "ok"]
    /\ UNCHANGED <<loopVarShared, sAsset, sMeta, fetchCalls, sFetchAnswer>>

\* tableRef.Update is refused because the table moved on since the fetch
\* (412): "failed to update table metadata"
SyncUpdateConflict(w) ==
    /\ SyncStepOnly
    /\ spc[w] = "update"
    /\ live[SRef(w)] # Nil
    /\ Submitted(w).ETag # live[SRef(w)][1].ETag
    /\ updateCalls' = [updateCalls EXCEPT ![w] = @ + 1]
    /\ sUpdate' = [sUpdate EXCEPT ![w] = Ptr(Submitted(w))]
    /\ spc' = [spc EXCEPT ![w] = "done"]
    /\ sResult' = [sResult EXCEPT ![w] = "err"]
    /\ UNCHANGED <<live, loopVarShared, sAsset, sMeta, fetchCalls, sFetchAnswer>>

\* tableRef.Update fails for any other reason
SyncUpdateError(w) ==
    /\ SyncStepOnly
    /\ spc[w] = "update"
    /\ updateCalls' = [updateCalls EXCEPT ![w] = @ + 1]
    /\ sUpdate' = [sUpdate EXCEPT ![w] = Ptr(Submitted(w))]
    /\ spc' = [spc EXCEPT ![w] = "done"]
    /\ sResult' = [sResult EXCEPT ![w] = "err"]
    /\ UNCHANGED <<live, loopVarShared, sAsset, sMeta, fetchCalls, sFetchAnswer>>

\* another writer changes the table; its version moves on
OtherWrite(r) ==
    /\ SyncStepOnly
    /\ live[r] # Nil
    /\ live[r][1].ETag < MaxETag
    /\ live' = [live EXCEPT ![r] =
                  Ptr([@[1] EXCEPT !.Description = "other", !.ETag = @ + 1])]
    /\ UNCHANGED <<loopVarShared, spc, sAsset, sMeta, sUpdate, sResult,
                   fetchCalls, updateCalls, sFetchAnswer>>

NextSync ==
    \/ \E w \in Syncers, a \in SyncAssets : SyncInvoke(w, a)
    \/ \E w \in Syncers : SyncFetchFound(w)
    \/ \E w \in Syncers : SyncFetchNotFound(w)
    \/ \E w \in Syncers : SyncFetchError(w)
    \/ \E w \in Syncers : SyncUpdateOK(w)
    \/ \E w \in Syncers : SyncUpdateConflict(w)
    \/ \E w \in Syncers : SyncUpdateError(w)
    \/ \E r \in SyncRefs : OtherWrite(r)

NextDrift == Detect

-----------------------------------------------------------------------------
(* Specifications: one per component; the other components stay parked     *)

ParkedDS ==
    /\ datasetNameCache = {}
    /\ datasetLocks = {}
    /\ holder = [k \in Keys |-> {}]
    /\ datasets = {}
    /\ pc = [p \in Callers |-> "idle"]
    /\ assetName = [p \in Callers |-> <<>>]
    /\ result = [p \in Callers |-> "none"]
    /\ probeCalls = [k \in Keys |-> 0]
    /\ createCalls = [k \in Keys |-> 0]
    /\ createOK = [k \in Keys |-> 0]

ParkedDrift ==
    /\ drMeta = Nil
    /\ drAsset = Nil
    /\ drDone = FALSE
    /\ drOut = NoResults

ParkedDrop ==
    /\ tables = [r \in TableRefs |-> Nil]
    /\ dpc = [w \in Droppers |-> "idle"]
    /\ dName = [w \in Droppers |-> <<>>]
    /\ dAsset = [w \in Droppers |-> Nil]
    /\ dMeta = [w \in Droppers |-> Nil]
    /\ dResult = [w \in Droppers |-> "none"]
    /\ deleteCalls = [w \in Droppers |-> 0]
    /\ dCallFailed = [w \in Droppers |-> FALSE]
    /\ metadataCalls = [w \in Droppers |-> 0]
    /\ dDeleteNotFound = [w \in Droppers |-> FALSE]

ParkedSync ==
    /\ live = [r \in SyncRefs |-> Nil]
    /\ loopVarShared = FALSE
    /\ spc = [w \in Syncers |-> "idle"]
    /\ sAsset = [w \in Syncers |-> Nil]
    /\ sMeta = [w \in Syncers |-> Nil]
    /\ sUpdate = [w \in Syncers |-> Nil]
    /\ sResult = [w \in Syncers |-> "none"]
    /\ fetchCalls = [w \in Syncers |-> 0]
    /\ updateCalls = [w \in Syncers |-> 0]
    /\ sFetchAnswer = [w \in Syncers |-> "none"]

ParkedNames ==
    /\ nmName = <<>>
    /\ nmDone = FALSE
    /\ nmRef = Nil
    /\ nmQuery = Nil

InitDataset ==
    InitDS /\ ParkedDrift /\ ParkedDrop /\ ParkedSync /\ ParkedNames

InitDetector ==
    InitDrift /\ ParkedDS /\ ParkedDrop /\ ParkedSync /\ ParkedNames

InitDropper ==
    InitDrop /\ ParkedDS /\ ParkedDrift /\ ParkedSync /\ ParkedNames

InitSyncer ==
    InitSync /\ ParkedDS /\ ParkedDrift /\ ParkedDrop /\ ParkedNames

InitResolver ==
    InitNames /\ ParkedDS /\ ParkedDrift /\ ParkedDrop /\ ParkedSync

SpecNames == InitResolver /\ [][NextNames]_vars

SpecDataset == InitDataset /\ [][NextDS]_vars

\* what one caller does once invoked, apart from waiting for the mutex
Running(p) ==
    \/ GetLock(p)
    \/ Check2(p)
    \/ ProbeFound(p)
    \/ ProbeNotFound(p)
    \/ ProbeError(p)
    \/ CreateSucceeds(p)
    \/ CreateFails(p)
    \/ Store(p)

CallerStep(p) == Lock(p) \/ Running(p)

\* a running goroutine goes on and every warehouse call returns; a caller
\* waiting in mutex.Lock() gets the mutex if it is free again and again
FairDS ==
    \A p \in Callers : WF_vars(Running(p)) /\ SF_vars(Lock(p))

SpecDatasetFair == InitDataset /\ [][NextDS]_vars /\ FairDS

SpecDrift == InitDetector /\ [][NextDrift]_vars

SpecDrop == InitDropper /\ [][NextDrop]_vars

SpecSync == InitSyncer /\ [][NextSync]_vars

-----------------------------------------------------------------------------
(* Properties of the dataset provisioner (checked under SpecDataset)       *)

\* the invocations that resolved to key k
InvocationsOf(k) ==
    { p \in Callers : /\ pc[p] # "idle"
                      /\ HasDataset(assetName[p])
                      /\ KeyOf(p) = k }

\* the callers between mutex.Lock() and the deferred mutex.Unlock() for key k
InCriticalSection(k) ==
    { p \in InvocationsOf(k) : pc[p] \in {"check2", "probe", "create", "store"} }

\* C1: when no invocation for a key returned an error, the warehouse got at
\* most one probe and at most one create for that key, and once all the
\* invocations for the key (at least one) have returned the cache holds the key.
OneRoundTripAndOneEntry ==
    \A k \in Keys :
        (\A p \in InvocationsOf(k) : result[p] # "err") =>
            /\ probeCalls[k] <= 1
            /\ createCalls[k] <= 1
            /\ ( (/\ InvocationsOf(k) # {}
                  /\ \A p \in InvocationsOf(k) : pc[p] = "done")
                 => k \in datasetNameCache )

\* C2: a caller that is about to probe or to create the dataset of key k is
\* in a state where k is absent from the cache.
NoProbeOrCreateOnceCached ==
    \A p \in Callers :
        pc[p] \in {"probe", "create"} => KeyOf(p) \notin datasetNameCache

\* a caller stands at the second check, holding the lock, with the key cached
CachedWhileWaitingForSecondCheck ==
    \E p \in Callers :
        /\ pc[p] = "check2"
        /\ KeyOf(p) \in datasetNameCache

\* C3: per key at most one caller is between Lock and Unlock, and at most
\* one create call for the key ever succeeds.
NoCreateRace ==
    \A k \in Keys :
        /\ Cardinality(InCriticalSection(k)) <= 1
        /\ createOK[k] <= 1

\* one caller has created the dataset and not yet released the lock while
\* another caller of the same key waits for the lock
CreatorHoldsLockWhileOtherWaits ==
    \E p, q \in Callers :
        /\ p # q
        /\ pc[p] = "store"
        /\ pc[q] = "lock"
        /\ KeyOf(p) = KeyOf(q)
        /\ createOK[KeyOf(p)] = 1

\* C4: after a successful return for a 2- or 3-segment name the key is in
\* the cache.
CachedAfterSuccess ==
    \A p \in Callers :
        (/\ pc[p] = "done"
         /\ result[p] = "ok"
         /\ HasDataset(assetName[p])) => KeyOf(p) \in datasetNameCache

\* C5, state part: a cached key names a dataset that exists
CachedImpliesExists == datasetNameCache \subseteq datasets

\* C5, step part: the cache never loses a key, and a step that returns an
\* error leaves the cache as it was, without the caller's key
CacheStepMonotone ==
    /\ datasetNameCache \subseteq datasetNameCache'
    /\ \A p \in Callers :
           (pc[p] # "done" /\ pc'[p] = "done" /\ result'[p] = "err") =>
               /\ datasetNameCache' = datasetNameCache
               /\ KeyOf(p) \notin datasetNameCache'

\* C5: the cache is monotone, holds only keys of existing datasets, and is
\* left unchanged (key still absent) when a probe or a create fails.
CacheMonotoneAndOnlyOnSuccess ==
    [](CachedImpliesExists) /\ [][CacheStepMonotone]_vars

\* one invocation returned an error and a later one of the same key is
\* about to probe again
ProbesAgainAfterFailure ==
    \E p, q \in Callers :
        /\ p # q
        /\ pc[p] = "done"
        /\ result[p] = "err"
        /\ pc[q] = "probe"
        /\ KeyOf(p) = KeyOf(q)
        /\ probeCalls[KeyOf(q)] >= 1

\* C11: a caller that is under way and whose own key's critical section is
\* empty can take a step, whoever holds the lock of another key.
NotBlockedByOtherKey ==
    \A p \in Callers :
        (/\ pc[p] \notin {"idle", "done"}
         /\ InCriticalSection(KeyOf(p)) \ {p} = {}) => ENABLED CallerStep(p)

\* one caller is inside the probe or create round trip of a key while a
\* caller of another key has gone through its own lock, probe and create
\* and returned
FinishedBesideStalledOtherKey ==
    \E p, q \in Callers :
        /\ pc[q] = "probe"
        /\ probeCalls[KeyOf(q)] = 0
        /\ pc[p] = "done"
        /\ HasDataset(assetName[p])
        /\ KeyOf(p) # KeyOf(q)
        /\ createOK[KeyOf(p)] = 1
        /\ KeyOf(p) \in datasetNameCache

\* a mutex is held only by a caller inside its critical section
LockHeldOnlyInside ==
    \A k \in Keys : holder[k] \subseteq InCriticalSection(k)

\* from some point on no invocation is under way: a caller is invoked once
\* and never leaves "done", so every invocation that started has returned
\* and none waits for a lock
EveryInvocationReturns ==
    <>[](\A p \in Callers : pc[p] \in {"idle", "done"})

\* C12: the lock is released on every exit path (no caller that returned
\* holds a lock), and under fair scheduling every invocation returns.
LockReleasedAndReturns ==
    [](LockHeldOnlyInside) /\ EveryInvocationReturns

\* a caller returned an error from the create call, holds no lock, and
\* another caller of the same key got the lock after it
LockFreedAfterCreateError ==
    \E p, q \in Callers :
        /\ p # q
        /\ pc[p] = "done"
        /\ result[p] = "err"
        /\ HasDataset(assetName[p])
        /\ HasDataset(assetName[q])
        /\ createCalls[KeyOf(p)] >= 1
        /\ KeyOf(q) = KeyOf(p)
        /\ holder[KeyOf(p)] = {q}

-----------------------------------------------------------------------------
(* Properties of the drift detector (checked under SpecDrift)              *)

\* the live table shows a partitioning or clustering signal, or the asset
\* declares a partition column or cluster columns
AnySignal(meta, asset) ==
    \/ meta.TimePartitioning # Nil
    \/ meta.RangePartitioning # Nil
    \/ meta.Clustering # Nil
    \/ asset.PartitionBy # ""
    \/ Len(asset.ClusterBy) > 0

\* C7: the aggregate predicate reports a mismatch exactly when a signal is
\* present on either side and one of the two comparisons fails; a clustered
\* live table against an asset that declares nothing is a mismatch.
AggregateRunsOnAnySignal ==
    drDone =>
        ( drOut.partOrClusterMismatch <=>
            ( /\ AnySignal(drMeta, drAsset)
              /\ (~drOut.samePartitioning \/ ~drOut.sameClustering) ) )

-----------------------------------------------------------------------------
(* Properties of DropTableOnMismatch (checked under SpecDrop)              *)

\* the live table differs from the asset in materialization type,
\* partitioning or clustering
Mismatched(meta, asset) ==
    \/ IsMaterializationTypeMismatch(meta, asset)
    \/ ~IsSamePartitioning(meta, asset)
    \/ ~IsSameClustering(meta, asset)

\* C6: an invocation with a well-formed name, none of whose warehouse calls
\* failed, returns success having issued exactly one delete call when the
\* table exists and is mismatched, and none when it matches or is not found.
DropsExactlyOnMismatch ==
    \A w \in Droppers :
        (/\ dpc[w] = "done"
         /\ RefOK(dName[w])
         /\ ~dCallFailed[w]) =>
            /\ dResult[w] = "ok"
            /\ deleteCalls[w] =
                 IF dMeta[w] # Nil /\ Mismatched(dMeta[w][1], dAsset[w][1])
                   THEN 1 ELSE 0

-----------------------------------------------------------------------------
(* Properties of UpdateTableMetadataIfNotExist (checked under SpecSync)    *)

\* at most one fetch and one update per invocation, the update carrying the
\* etag of the invocation's own fetch
OneUpdateWithFetchedETag ==
    \A w \in Syncers :
        /\ fetchCalls[w] <= 1
        /\ updateCalls[w] <= 1
        /\ sUpdate[w] # Nil =>
              /\ sMeta[w] # Nil
              /\ sUpdate[w][1].ETag = sMeta[w][1].ETag

\* an update sent after the table moved on changes nothing and ends the
\* invocation with an error, with no further fetch
StaleUpdateRejected ==
    \A w \in Syncers :
        (/\ spc[w] = "update"
         /\ spc'[w] # "update"
         /\ live[SRef(w)] # Nil
         /\ live[SRef(w)][1].ETag # sMeta[w][1].ETag) =>
            /\ live' = live
            /\ spc'[w] = "done"
            /\ sResult'[w] = "err"
            /\ fetchCalls'[w] = fetchCalls[w]
            /\ updateCalls'[w] = 1

\* C8: one update per invocation at most, with the etag of its own fetch; a
\* stale update is refused and surfaces as an error without another fetch
\* or update, and leaves the other writer's change in place.
OptimisticUpdateNoRetry ==
    [](OneUpdateWithFetchedETag) /\ [][StaleUpdateRejected]_vars

\* an invocation ended in an error after its one update met a table that
\* another writer had changed since the fetch, and that change is still there
ConflictSurfaced ==
    \E w \in Syncers :
        /\ spc[w] = "done"
        /\ sResult[w] = "err"
        /\ sUpdate[w] # Nil
        /\ updateCalls[w] = 1
        /\ live[SRef(w)][1].ETag # sMeta[w][1].ETag
        /\ live[SRef(w)][1].Description = "other"

\* the asset has no top-level description and no described column
NothingDescribed(asset) ==
    /\ asset.Description = ""
    /\ \A i \in 1..Len(asset.Columns) : asset.Columns[i].Description = ""

\* C9: an invocation for an asset with no description and no described
\* column has returned NoMetadataUpdatedError and made no warehouse call,
\* whatever its name and whatever the live table.
NoMetadataNoCall ==
    \A w \in Syncers :
        (sAsset[w] # Nil /\ NothingDescribed(sAsset[w][1])) =>
            /\ spc[w] = "done"
            /\ sResult[w] = "nometadata"
            /\ fetchCalls[w] = 0
            /\ updateCalls[w] = 0
            /\ sUpdate[w] = Nil

\* NoMetadataUpdatedError was returned for an asset with columns and a
\* malformed name while the table is there
NoMetadataForMalformedName ==
    \E w \in Syncers :
        /\ sResult[w] = "nometadata"
        /\ ~RefOK(sAsset[w][1].Name)
        /\ Len(sAsset[w][1].Columns) > 0
        /\ \E r \in SyncRefs : live[r] # Nil

\* the names of the asset's columns flagged primary key, in column order
PrimaryKeyColumns(asset) ==
    LET flagged == SelectSeq(asset.Columns, LAMBDA c : c.PrimaryKey)
    IN [ i \in 1..Len(flagged) |-> flagged[i].Name ]

\* the invocation submitted an update whose constraints are exactly the
\* asset's primary-key columns
SubmittedPrimaryKey(w) ==
    /\ sUpdate[w] # Nil
    /\ sUpdate[w][1].Update.TableConstraints =
           Ptr([PrimaryKey |-> PrimaryKeyColumns(sAsset[w][1])])

\* C10 as stated: every finished, error-free invocation for an asset with a
\* primary key, a well-formed name and an existing table has submitted an
\* update with exactly the primary-key columns, descriptions or not.
PrimaryKeyAlwaysPushed ==
    \A w \in Syncers :
        (/\ spc[w] = "done"
         /\ sResult[w] # "err"
         /\ PrimaryKeyColumns(sAsset[w][1]) # <<>>
         /\ RefOK(sAsset[w][1].Name)
         /\ live[SRef(w)] # Nil) => SubmittedPrimaryKey(w)
-----------------------------------------------------------------------------
(* Properties of name resolution (checked under SpecNames)                 *)

\* the name has exactly 2 or 3 segments, none of them empty
WellFormed(n) ==
    /\ Len(n) \in {2, 3}
    /\ \A i \in 1..Len(n) : n[i] # ""

\* C13: resolution succeeds exactly on names of 2 or 3 non-empty segments,
\* with <<home project, seg0, seg1>> or <<seg0, seg1, seg2>>, and
\* BuildTableExistsQuery accepts the same names with the same project,
\* dataset and table.
ResolutionTotalAndShared ==
    nmDone =>
        /\ (nmRef # Nil) <=> WellFormed(nmName)
        /\ (nmQuery # Nil) <=> WellFormed(nmName)
        /\ (WellFormed(nmName) /\ Len(nmName) = 2) =>
              nmRef[1] = <<HomeProject, nmName[1], nmName[2]>>
        /\ (WellFormed(nmName) /\ Len(nmName) = 3) =>
              nmRef[1] = <<nmName[1], nmName[2], nmName[3]>>
        /\ WellFormed(nmName) =>
              /\ nmQuery[1].DatasetRef[1] = nmRef[1][1]
              /\ nmQuery[1].DatasetRef[2] = nmRef[1][2]
              /\ nmQuery[1].TargetTable = nmRef[1][3]

\* a three-segment name whose middle segment is empty was rejected by both
RejectedEmptySegment ==
    /\ nmDone
    /\ Len(nmName) = 3
    /\ nmName[2] = ""
    /\ nmName[1] # "" /\ nmName[3] # ""
    /\ nmRef = Nil
    /\ nmQuery = Nil
-----------------------------------------------------------------------------
(* Properties of the two comparisons (checked under SpecDrift)             *)

\* C14: clustering matches is an order-sensitive comparison: declared
\* columns against absent or empty live clustering is a mismatch, absent live
\* clustering against no declared columns is a match, and otherwise the
\* result is a match exactly when the two lists are the same sequence.
ClusteringComparedInOrder ==
    drDone =>
        LET declared == drAsset.ClusterBy
            absent == drMeta.Clustering = Nil
        IN  /\ (declared # <<>> /\ (absent \/ drMeta.Clustering[1].Fields = <<>>))
                  => ~drOut.sameClustering
            /\ (absent /\ declared = <<>>) => drOut.sameClustering
            /\ (~absent /\ ~(declared # <<>> /\ drMeta.Clustering[1].Fields = <<>>))
                  => (drOut.sameClustering
                        <=> drMeta.Clustering[1].Fields = declared)

\* the same two columns in the other order were found to differ
SwappedClusterColumnsDiffer ==
    /\ drDone
    /\ drMeta.Clustering = Ptr([Fields |-> <<"a", "b">>])
    /\ drAsset.ClusterBy = <<"b", "a">>
    /\ ~drOut.sameClustering

\* the partitionings present on the live table
LivePartitionings(meta) ==
    { p \in {meta.TimePartitioning, meta.RangePartitioning} : p # Nil }

\* C15: partitioning matches: a declared partition column against an
\* unpartitioned live table is a mismatch, no declared column against an
\* unpartitioned live table is a match, and otherwise the result is a match
\* exactly when every partitioning present on the live table is on the
\* declared column.
PartitioningComparedOnEveryField ==
    drDone =>
        LET declared == drAsset.PartitionBy
            present == LivePartitionings(drMeta)
        IN  /\ (declared # "" /\ present = {}) => ~drOut.samePartitioning
            /\ (declared = "" /\ present = {}) => drOut.samePartitioning
            /\ present # {} =>
                  (drOut.samePartitioning
                     <=> \A p \in present : p[1].Field = declared)
            /\ (present # {} /\ declared = "") =>
                  (drOut.samePartitioning
                     <=> \A p \in present : p[1].Field = "")

\* a live table range-partitioned on another column than its time
\* partitioning and the declared column was found to differ
RangePartitionOnOtherColumnDiffers ==
    /\ drDone
    /\ drMeta.TimePartitioning = Ptr([Field |-> "a"])
    /\ drMeta.RangePartitioning = Ptr([Field |-> "b"])
    /\ drAsset.PartitionBy = "a"
    /\ ~drOut.samePartitioning
-----------------------------------------------------------------------------
(* Properties of the drop decision (checked under SpecDrop)                *)

\* the live type and the declared type are the same word in another case
SameTypeIgnoringCase(metaType, assetType) ==
    \/ metaType = "TABLE" /\ assetType = "table"
    \/ metaType = "VIEW" /\ assetType = "view"

\* neither side has partitioning or clustering
Unpartitioned(meta, asset) ==
    /\ meta.TimePartitioning = Nil
    /\ meta.RangePartitioning = Nil
    /\ meta.Clustering = Nil
    /\ asset.PartitionBy = ""
    /\ asset.ClusterBy = <<>>

\* the worker's decision after its fetch was to delete
DecidedToDelete(w) == dpc[w] = "delete" \/ deleteCalls[w] >= 1

\* C16: the type signal does not depend on partitioning or clustering: a
\* declared type other than none that differs from the live type ignoring
\* case always leads to the delete, also on an unpartitioned, unclustered
\* pair; on such a pair a declared type of none, or the same type in
\* another case, never does.
TypeDriftDropsOnItsOwn ==
    \A w \in Droppers :
        dMeta[w] # Nil =>
            LET meta == dMeta[w][1]
                asset == dAsset[w][1]
                differs == /\ asset.Type # "none"
                           /\ ~SameTypeIgnoringCase(meta.Type, asset.Type)
            IN  /\ differs => DecidedToDelete(w)
                /\ (~differs /\ Unpartitioned(meta, asset)) => ~DecidedToDelete(w)

\* a plain view was deleted for an asset that declares a plain table
PlainViewDroppedForTableAsset ==
    \E w \in Droppers :
        /\ dpc[w] = "done"
        /\ dResult[w] = "ok"
        /\ deleteCalls[w] = 1
        /\ dMeta[w] # Nil
        /\ dMeta[w][1].Type = "VIEW"
        /\ dAsset[w][1].Type = "table"
        /\ Unpartitioned(dMeta[w][1], dAsset[w][1])
        /\ tables[DRef(w)] = Nil

\* what an invocation that has returned did on each of its error paths
DropErrorPaths ==
    \A w \in Droppers :
        /\ metadataCalls[w] <= 1
        /\ deleteCalls[w] <= 1
        /\ dpc[w] = "done" =>
              /\ ~WellFormed(dName[w]) =>
                    /\ dResult[w] = "err"
                    /\ metadataCalls[w] = 0
                    /\ deleteCalls[w] = 0
              /\ (dCallFailed[w] /\ deleteCalls[w] = 0) =>
                    /\ dResult[w] = "err"
                    /\ metadataCalls[w] = 1
              /\ (dCallFailed[w] /\ deleteCalls[w] = 1) => dResult[w] = "err"

\* a step in which a worker's delete call fails leaves every table alone
FailedDeleteKeepsTables ==
    \A w \in Droppers :
        (/\ deleteCalls'[w] # deleteCalls[w]
         /\ dResult'[w] = "err") => tables' = tables

\* C19: a malformed name returns an error with no warehouse call, a fetch
\* failure other than not-found returns an error with no delete call, and a
\* failed delete returns an error after one delete call, the table left as
\* it was.
DropErrorsNonDestructive ==
    [](DropErrorPaths) /\ [][FailedDeleteKeepsTables]_vars

\* a delete failed, the invocation returned the error after one attempt and
\* the table it had fetched is still there
FailedDeleteLeftTable ==
    \E w \in Droppers :
        /\ dpc[w] = "done"
        /\ dResult[w] = "err"
        /\ deleteCalls[w] = 1
        /\ ~dDeleteNotFound[w]
        /\ dMeta[w] # Nil
        /\ tables[DRef(w)] = dMeta[w]

\* a step in which a worker's delete takes effect finds the table
\* mismatched with that worker's asset
DeleteHitsMismatchedTable ==
    \A w \in Droppers :
        (/\ dpc[w] = "delete"
         /\ deleteCalls'[w] # deleteCalls[w]
         /\ tables[DRef(w)] # Nil
         /\ tables'[DRef(w)] = Nil) =>
            Mismatched(tables[DRef(w)][1], dAsset[w][1])

\* an invocation with a well-formed name returns success unless a warehouse
\* call failed for another reason than the table being gone
SucceedsUnlessWarehouseFails ==
    \A w \in Droppers :
        (/\ dpc[w] = "done"
         /\ WellFormed(dName[w])
         /\ (~dCallFailed[w] \/ dDeleteNotFound[w])) => dResult[w] = "ok"

\* C20: with concurrent workers and recreation of the table, a delete takes
\* effect only on a table that is mismatched at that moment with the asset
\* of the invocation that issued it, and every invocation returns success
\* unless the warehouse fails, a table already gone not being a failure.
DeletesOnlyWhileMismatched ==
    [][DeleteHitsMismatchedTable]_vars /\ [](SucceedsUnlessWarehouseFails)
-----------------------------------------------------------------------------
(* Further properties of UpdateTableMetadataIfNotExist (under SpecSync)    *)

\* C17: the submitted update carries the schema only if the description of
\* at least one fetched field actually changes; when every matching field
\* already carries its column's description, or no field matches, the update
\* carries no schema.
SchemaOnlyIfDescriptionChanged ==
    \A w \in Syncers :
        (sUpdate[w] # Nil /\ sUpdate[w][1].Update.Schema # Nil) =>
            \E i \in 1..Len(sMeta[w][1].Schema) :
                sUpdate[w][1].Update.Schema[1][i].Description
                    # sMeta[w][1].Schema[i].Description

\* C18: when the fetch answers not-found the call returns success, and when
\* it fails otherwise the call returns an error; in both cases no update
\* call is issued.
AbsenceIsSuccessWithoutUpdate ==
    \A w \in Syncers :
        spc[w] = "done" =>
            /\ sFetchAnswer[w] = "notfound" =>
                  /\ sResult[w] = "ok"
                  /\ updateCalls[w] = 0
                  /\ sUpdate[w] = Nil
            /\ sFetchAnswer[w] = "error" =>
                  /\ sResult[w] = "err"
                  /\ updateCalls[w] = 0
                  /\ sUpdate[w] = Nil

\* an asset with a description to push met a table that does not exist and
\* the call returned success after its one fetch
AbsentTableReturnedSuccess ==
    \E w \in Syncers :
        /\ spc[w] = "done"
        /\ sFetchAnswer[w] = "notfound"
        /\ sAsset[w][1].Description = "D"
        /\ live[SRef(w)] = Nil
        /\ fetchCalls[w] = 1
        /\ updateCalls[w] = 0
        /\ sResult[w] = "ok"

====
